---- MODULE Spec2Model ----
(***************************************************************************)
(* Model of src/prefect/run.py: the matrix generation of                   *)
(* parse_and_generate_matrix and the bounded dispatch loop of the flow     *)
(* waku_cron_job, with the deploy_config jobs it submits running           *)
(* concurrently with the flow.                                             *)
(***************************************************************************)
EXTENDS Integers, Sequences, FiniteSets, TLC

\* ------------------------------------------------------------------ bounds
\* most values in the "Number of nodes" list
MaxNodes == 3
\* most values in the "Duration" list
MaxDurations == 3
\* most configurations of one matrix (|nodes| * |durations|)
MaxJobs == 4
\* largest "Parallelism" value
MaxParallel == 2

NodeValues == {10, 20}
DurationValues == {5, 7}

SeqsUpTo(S, n) == UNION {[1..k -> S] : k \in 0..n}

\* ------------------------------------------------------------------ state
VARIABLES
    result,          \* first value returned by find_valid_issue
    nodes,           \* parse_list of "Number of nodes" of the issue body
    durations,       \* parse_list of "Duration"
    parallel_runs,   \* parse_list of "Parallelism"
    matrix,          \* the list returned by parse_and_generate_matrix
    parallel_limit,  \* the flow's local parallel_limit
    active_futures,  \* the flow's list of futures (handle = position in matrix)
    config,          \* position in matrix of the for-loop's current config
    completed,       \* the future popped by pop(0) and being waited for
    future,          \* position in active_futures of the final loop
    pc,              \* where the flow is
    raised,          \* the exception that ended the flow, or "None"
    ret,             \* what the flow returned
    status,          \* state of the task run of each configuration
    submitted,       \* handles in the order deploy_config.submit returned them
    waited,          \* handles in the order a wait() on them returned
    finished,        \* handles in the order their task runs ended
    response,        \* what the issue tracker answers to find_valid_issue
    valid_issue,     \* second value returned by find_valid_issue
    body,            \* issue['body'] of the issue being parsed
    data,            \* the dict of sections parse_and_generate_matrix builds
    pubsub_topic     \* the topic parse_and_generate_matrix puts in each config

vars == <<result, nodes, durations, parallel_runs, matrix, parallel_limit,
          active_futures, config, completed, future, pc, raised, ret, status,
          submitted, waited, finished, response, valid_issue, body, data,
          pubsub_topic>>

\* what the dispatch loop never touches
inputVars == <<response, valid_issue, body, data, pubsub_topic>>

NoFuture == 0
Terminal == {"Completed", "Failed"}

\* -------------------------------------------------------------------- text
\* A str is the sequence of its characters. "sup2" stands for the one
\* character U+00B2 (superscript two): str.isdigit() is true of it and int()
\* rejects it.
Whitespace == {" ", "\n", "\t", "\r"}
DecimalDigits == <<"0", "1", "2", "3", "4", "5", "6", "7", "8", "9">>
IsDecimal(c) == \E k \in 1..Len(DecimalDigits) : DecimalDigits[k] = c
DigitValue(c) == (CHOOSE k \in 1..Len(DecimalDigits) : DecimalDigits[k] = c) - 1

\* str.strip()
RECURSIVE LStrip(_)
LStrip(s) == IF s # <<>> /\ Head(s) \in Whitespace THEN LStrip(Tail(s)) ELSE s
RECURSIVE RStrip(_)
RStrip(s) ==
    IF s # <<>> /\ s[Len(s)] \in Whitespace
    THEN RStrip(SubSeq(s, 1, Len(s) - 1)) ELSE s
Strip(s) == RStrip(LStrip(s))

\* str.split(sep) for a one-character sep: one piece more than separators
RECURSIVE SplitAcc(_, _, _, _)
SplitAcc(s, sep, piece, out) ==
    IF s = <<>> THEN Append(out, piece)
    ELSE IF Head(s) = sep
         THEN SplitAcc(Tail(s), sep, <<>>, Append(out, piece))
         ELSE SplitAcc(Tail(s), sep, Append(piece, Head(s)), out)
Split(s, sep) == SplitAcc(s, sep, <<>>, <<>>)

\* str.startswith(prefix)
StartsWith(s, prefix) ==
    Len(s) >= Len(prefix) /\ SubSeq(s, 1, Len(prefix)) = prefix

\* str.isdigit(): not empty and every character a digit character
IsDigit(s) ==
    s # <<>> /\ \A k \in 1..Len(s) : IsDecimal(s[k]) \/ s[k] = "sup2"

\* int(s) of a stripped token: ValueError unless every character is decimal
IntRaises(s) == s = <<>> \/ \E k \in 1..Len(s) : ~IsDecimal(s[k])
RECURSIVE IntValue(_)
IntValue(s) ==
    IF s = <<>> THEN 0
    ELSE 10 * IntValue(SubSeq(s, 1, Len(s) - 1)) + DigitValue(s[Len(s)])

\* the string literals of parse_and_generate_matrix
HeaderPrefix == <<"#", "#", "#", " ">>
NoResponse == <<"_", "N", "o", " ", "r", "e", "s", "p", "o", "n", "s", "e", "_">>
KeyNodes == <<"N", "u", "m", "b", "e", "r", " ", "o", "f", " ", "n", "o", "d", "e", "s">>
KeyDuration == <<"D", "u", "r", "a", "t", "i", "o", "n">>
KeyParallelism == <<"P", "a", "r", "a", "l", "l", "e", "l", "i", "s", "m">>
KeyTopic == <<"P", "u", "b", "S", "u", "b", " ", "T", "o", "p", "i", "c">>
DefaultNodes == <<"5", "0">>
DefaultDuration == <<"5">>
DefaultParallelism == <<"1">>
TopicPrefix == <<"/", "w", "a", "k", "u", "/", "2", "/", "r", "s">>
DefaultTopic == <<"/", "w", "a", "k", "u", "/", "2", "/", "r", "s", "/", "2", "/", "0">>

\* ------------------------------------------------------ the section scanner
\* current: None before the first header, then the title of the open section
NoSection == [open |-> FALSE, title |-> <<>>]
Section(title) == [open |-> TRUE, title |-> title]

\* elif current: a str is true when it is not None and not empty
Truthy(current) == current.open /\ current.title # <<>>

\* for line in lines: the header resets data[current], another line is added
\* to data[current] with a newline when current is true
RECURSIVE ScanLines(_, _, _)
ScanLines(lines, d, current) ==
    IF lines = <<>> THEN d
    ELSE LET line == Head(lines) IN
         IF StartsWith(line, HeaderPrefix)
         THEN LET title == Strip(SubSeq(line, 5, Len(line)))
              IN  ScanLines(Tail(lines), (title :> <<>>) @@ d,
                            Section(title))
         ELSE IF Truthy(current)
              THEN ScanLines(Tail(lines),
                             [d EXCEPT ![current.title] = @ \o line \o <<"\n">>],
                             current)
              ELSE ScanLines(Tail(lines), d, current)

\* lines = body.split('\n'); data = {}; current = None; the loop
ScanBody(text) == ScanLines(Split(text, "\n"), <<>>, NoSection)

\* ------------------------------------------------------------ field helpers
\* get_valid_value(key, default_value)
get_valid_value(d, key, default_value) ==
    LET value == Strip(IF key \in DOMAIN d THEN d[key] ELSE default_value)
    IN  IF value = <<>> \/ value = NoResponse THEN default_value ELSE value

\* the tokens parse_list keeps: v.strip().isdigit()
KeptTokens(val) ==
    LET parts == Split(val, ",")
    IN  SelectSeq([k \in 1..Len(parts) |-> Strip(parts[k])], IsDigit)

\* parse_list(val, default="0"): the list, or the ValueError of int()
parse_list(val) ==
    LET v == IF val = <<>> \/ val = NoResponse THEN <<"0">> ELSE val
        kept == KeptTokens(v)
    IN  IF \E k \in 1..Len(kept) : IntRaises(kept[k])
        THEN [raised |-> TRUE, value |-> <<>>]
        ELSE [raised |-> FALSE,
              value |-> [k \in 1..Len(kept) |-> IntValue(kept[k])]]

\* the prefix test left out: any supplied topic is taken
ResolveTopicUnchecked(raw) == IF raw = <<>> THEN DefaultTopic ELSE raw

\* if not raw_pubsub_topic or not raw_pubsub_topic.startswith("/waku/2/rs")
ResolveTopic(raw) ==
    IF raw = <<>> \/ ~StartsWith(raw, TopicPrefix) THEN DefaultTopic ELSE raw

\* --------------------------------------------------------- find_valid_issue
UpperCase == <<"A", "B", "C", "D", "E", "F", "G", "H", "I", "J", "K", "L", "M", "N", "O", "P", "Q", "R", "S", "T", "U", "V", "W", "X", "Y", "Z">>
LowerCase == <<"a", "b", "c", "d", "e", "f", "g", "h", "i", "j", "k", "l", "m", "n", "o", "p", "q", "r", "s", "t", "u", "v", "w", "x", "y", "z">>

\* str.lower(), character by character
LowerChar(c) ==
    IF \E k \in 1..Len(UpperCase) : UpperCase[k] = c
    THEN LowerCase[CHOOSE k \in 1..Len(UpperCase) : UpperCase[k] = c]
    ELSE c
Lower(s) == [k \in 1..Len(s) |-> LowerChar(s[k])]

AUTHORIZED_USERS ==
    << <<"z", "o", "r", "l", "i", "n">>,
       <<"A", "l", "b", "e", "r", "t", "o", "S", "o", "u", "t", "u", "l", "l", "o">>,
       <<"m", "i", "c", "h", "a", "t", "i", "n", "k", "e", "r", "s">> >>

\* e['actor']['login'].lower() in [u.lower() for u in AUTHORIZED_USERS]
ActorAuthorized(login) ==
    \E k \in 1..Len(AUTHORIZED_USERS) : Lower(login) = Lower(AUTHORIZED_USERS[k])

\* None, as the second value returned
NoIssue == [number |-> 0, labels |-> {}, events |-> <<>>]

\* the actor test left out: any 'labeled needs-scheduling' event verifies
RECURSIVE EventsVerifyAnyActor(_)
EventsVerifyAnyActor(events) ==
    IF events = <<>> THEN FALSE
    ELSE LET e == events[Len(events)] IN
         IF e.event = "labeled" /\ e.label = "needs-scheduling"
         THEN TRUE
         ELSE EventsVerifyAnyActor(SubSeq(events, 1, Len(events) - 1))

\* for e in reversed(events): a 'labeled needs-scheduling' event of an
\* authorized actor returns VERIFIED; any other event is passed over
RECURSIVE EventsVerify(_)
EventsVerify(events) ==
    IF events = <<>> THEN FALSE
    ELSE LET e == events[Len(events)] IN
         IF /\ e.event = "labeled" /\ e.label = "needs-scheduling"
            /\ ActorAuthorized(e.actor)
         THEN TRUE
         ELSE EventsVerify(SubSeq(events, 1, Len(events) - 1))

\* the 'needs-scheduling' not in labels test left out
RECURSIVE ScanIssuesNoLabelTest(_)
ScanIssuesNoLabelTest(issues) ==
    IF issues = <<>> THEN [result |-> "NOT_VERIFIED", issue |-> NoIssue]
    ELSE LET issue == Head(issues) IN
         IF "simulation-done" \in issue.labels
         THEN ScanIssuesNoLabelTest(Tail(issues))
         ELSE IF EventsVerify(issue.events)
              THEN [result |-> "VERIFIED", issue |-> issue]
              ELSE ScanIssuesNoLabelTest(Tail(issues))

\* for issue in issues: the two label tests, then the events of the issue
RECURSIVE ScanIssues(_)
ScanIssues(issues) ==
    IF issues = <<>> THEN [result |-> "NOT_VERIFIED", issue |-> NoIssue]
    ELSE LET issue == Head(issues) IN
         IF "simulation-done" \in issue.labels
         THEN ScanIssues(Tail(issues))
         ELSE IF "needs-scheduling" \notin issue.labels
              THEN ScanIssues(Tail(issues))
              ELSE IF EventsVerify(issue.events)
                   THEN [result |-> "VERIFIED", issue |-> issue]
                   ELSE ScanIssues(Tail(issues))

find_valid_issue(resp) ==
    IF resp.status_code # 200
    THEN [result |-> "NOT_VERIFIED", issue |-> NoIssue]
    ELSE ScanIssues(resp.issues)

\* ------------------------------------------------- parse_and_generate_matrix
\* parallel_limit = parallel_runs[0] if parallel_runs else 1
ParallelLimit(runs) == IF runs # <<>> THEN runs[1] ELSE 1

\* one dict appended to the matrix (the fields the dispatch depends on)
Config(i, n, d, limit) ==
    [index |-> i, nodecount |-> n, duration |-> d, parallel_limit |-> limit]

\* for d in durations: matrix.append({...}); i += 1
RECURSIVE ForDurations(_, _, _, _, _)
ForDurations(n, ds, limit, i, m) ==
    IF ds = <<>> THEN [i |-> i, matrix |-> m]
    ELSE ForDurations(n, Tail(ds), limit, i + 1,
                      Append(m, Config(i, n, Head(ds), limit)))

\* for n in nodes: for d in durations: ...
RECURSIVE ForNodes(_, _, _, _, _)
ForNodes(ns, ds, limit, i, m) ==
    IF ns = <<>> THEN m
    ELSE LET r == ForDurations(Head(ns), ds, limit, i, m)
         IN  ForNodes(Tail(ns), ds, limit, r.i, r.matrix)

\* the two loops exchanged: for d in durations: for n in nodes
GenerateMatrixDurationMajor(ns, ds, runs) ==
    LET m == ForNodes(ds, ns, ParallelLimit(runs), 0, <<>>)
    IN  [k \in 1..Len(m) |->
            Config(m[k].index, m[k].duration, m[k].nodecount,
                   m[k].parallel_limit)]

GenerateMatrix(ns, ds, runs) == ForNodes(ns, ds, ParallelLimit(runs), 0, <<>>)

\* ------------------------------------------------------------- waku_cron_job
\* the comparison off by one: len(active_futures) > parallel_limit
LimitReachedOffByOne(q, limit) == Len(q) > limit

\* the loop waits whenever any future is tracked: len(active_futures) >= 1
LimitReachedAnyActive(q, limit) == Len(q) >= 1

\* while len(active_futures) >= parallel_limit
LimitReached(q, limit) == Len(q) >= limit

\* pop() in place of pop(0): the newest future is removed
PopLast(q) == [item |-> q[Len(q)], rest |-> SubSeq(q, 1, Len(q) - 1)]

\* active_futures[0] in place of pop(0): the head is read and not removed
PopPeek(q) == [item |-> Head(q), rest |-> q]

\* active_futures.pop(0): the item removed and the list left
Pop0(q) == [item |-> Head(q), rest |-> Tail(q)]

\* future.wait() returns once the task run is in a final state
WaitReturns(h) == status[h] \in Terminal

\* the flow function has no return statement
None == [tag |-> "None"]
NotReturned == [tag |-> "NotReturned"]

\* an issue labelled needs-scheduling by an authorized user
ApprovedIssue ==
    [number |-> 1, labels |-> {"needs-scheduling"},
     events |-> <<[event |-> "labeled", label |-> "needs-scheduling",
                   actor |-> AUTHORIZED_USERS[1]]>>]

\* a body whose text this specification leaves out
NoText == [null |-> FALSE, text |-> <<>>]

Init ==
    /\ result \in {"VERIFIED", "NOT_VERIFIED"}
    /\ nodes \in SeqsUpTo(NodeValues, MaxNodes)
    /\ durations \in SeqsUpTo(DurationValues, MaxDurations)
    /\ Len(nodes) * Len(durations) <= MaxJobs
    /\ parallel_runs \in SeqsUpTo(0..MaxParallel, 1)
    /\ matrix = <<>>
    /\ parallel_limit = 1
    /\ active_futures = <<>>
    /\ config = 0
    /\ completed = NoFuture
    /\ future = 0
    /\ pc = "find"
    /\ raised = "None"
    /\ ret = NotReturned
    /\ status = <<>>
    /\ submitted = <<>>
    /\ waited = <<>>
    /\ finished = <<>>
    /\ valid_issue = IF result = "VERIFIED" THEN ApprovedIssue ELSE NoIssue
    /\ response = [status_code |-> 200,
                   issues |-> IF result = "VERIFIED" THEN <<ApprovedIssue>>
                                                     ELSE <<>>]
    /\ body = NoText
    /\ data = <<>>
    /\ pubsub_topic = DefaultTopic

\* result == "VERIFIED": the matrix is generated and parallel_limit read from it
FlowVerified ==
    /\ pc = "find"
    /\ result = "VERIFIED"
    /\ LET m == GenerateMatrix(nodes, durations, parallel_runs)
       IN  /\ matrix' = m
           /\ parallel_limit' = IF m # <<>> THEN m[1].parallel_limit ELSE 1
           /\ status' = [h \in 1..Len(m) |-> "Pending"]
    /\ active_futures' = <<>>
    /\ pc' = "for"
    /\ UNCHANGED <<result, nodes, durations, parallel_runs, config, completed,
                   future, raised, ret, submitted, waited, finished>>
    /\ UNCHANGED inputVars

\* result != "VERIFIED": the body of the if is skipped and the flow returns
FlowNotVerified ==
    /\ pc = "find"
    /\ result # "VERIFIED"
    /\ pc' = "done"
    /\ ret' = None
    /\ UNCHANGED <<result, nodes, durations, parallel_runs, matrix,
                   parallel_limit, active_futures, config, completed, future,
                   raised, status, submitted, waited, finished>>
    /\ UNCHANGED inputVars

\* the loop steps over every other config
ForNextSkipping ==
    /\ pc = "for"
    /\ IF config + 1 < Len(matrix)
       THEN /\ config' = config + 2
            /\ pc' = "while"
            /\ UNCHANGED future
       ELSE /\ pc' = "drain"
            /\ future' = 1
            /\ UNCHANGED config
    /\ UNCHANGED <<result, nodes, durations, parallel_runs, matrix,
                   parallel_limit, active_futures, completed, raised, ret,
                   status, submitted, waited, finished>>
    /\ UNCHANGED inputVars

\* for config in matrix: the next config, or on to the final loop
ForNext ==
    /\ pc = "for"
    /\ IF config < Len(matrix)
       THEN /\ config' = config + 1
            /\ pc' = "while"
            /\ UNCHANGED future
       ELSE /\ pc' = "drain"
            /\ future' = 1
            /\ UNCHANGED config
    /\ UNCHANGED <<result, nodes, durations, parallel_runs, matrix,
                   parallel_limit, active_futures, completed, raised, ret,
                   status, submitted, waited, finished>>
    /\ UNCHANGED inputVars

\* the while condition holds and pop(0) removes the head
WhilePop ==
    /\ pc = "while"
    /\ LimitReached(active_futures, parallel_limit)
    /\ active_futures # <<>>
    /\ completed' = Pop0(active_futures).item
    /\ active_futures' = Pop0(active_futures).rest
    /\ pc' = "wait"
    /\ UNCHANGED <<result, nodes, durations, parallel_runs, matrix,
                   parallel_limit, config, future, raised, ret, status,
                   submitted, waited, finished>>
    /\ UNCHANGED inputVars

\* the while condition holds on an empty list: pop(0) raises IndexError
WhilePopEmpty ==
    /\ pc = "while"
    /\ LimitReached(active_futures, parallel_limit)
    /\ active_futures = <<>>
    /\ raised' = "IndexError"
    /\ pc' = "crashed"
    /\ UNCHANGED <<result, nodes, durations, parallel_runs, matrix,
                   parallel_limit, active_futures, config, completed, future,
                   ret, status, submitted, waited, finished>>
    /\ UNCHANGED inputVars

\* .result() in place of .wait(): a failed task run re-raises in the flow
WaitHeadRaising ==
    /\ pc = "wait"
    /\ WaitReturns(completed)
    /\ IF status[completed] = "Failed"
       THEN /\ raised' = "JobFailed"
            /\ pc' = "crashed"
            /\ UNCHANGED <<waited, completed>>
       ELSE /\ waited' = Append(waited, completed)
            /\ completed' = NoFuture
            /\ pc' = "while"
            /\ UNCHANGED raised
    /\ UNCHANGED <<result, nodes, durations, parallel_runs, matrix,
                   parallel_limit, active_futures, config, future, ret,
                   status, submitted, finished>>
    /\ UNCHANGED inputVars

\* .wait() on the popped future returns, whatever the final state
WaitHead ==
    /\ pc = "wait"
    /\ WaitReturns(completed)
    /\ waited' = Append(waited, completed)
    /\ completed' = NoFuture
    /\ pc' = "while"
    /\ UNCHANGED <<result, nodes, durations, parallel_runs, matrix,
                   parallel_limit, active_futures, config, future, raised, ret,
                   status, submitted, finished>>
    /\ UNCHANGED inputVars

\* insert(0, ...) in place of append: the new future goes to the front
SubmitPrepend ==
    /\ pc = "while"
    /\ ~LimitReached(active_futures, parallel_limit)
    /\ status' = [status EXCEPT ![config] = "Running"]
    /\ active_futures' = <<config>> \o active_futures
    /\ submitted' = Append(submitted, config)
    /\ pc' = "for"
    /\ UNCHANGED <<result, nodes, durations, parallel_runs, matrix,
                   parallel_limit, config, completed, future, raised, ret,
                   waited, finished>>
    /\ UNCHANGED inputVars

\* deploy_config.submit(config) returns a future, which is appended
Submit ==
    /\ pc = "while"
    /\ ~LimitReached(active_futures, parallel_limit)
    /\ status' = [status EXCEPT ![config] = "Running"]
    /\ active_futures' = Append(active_futures, config)
    /\ submitted' = Append(submitted, config)
    /\ pc' = "for"
    /\ UNCHANGED <<result, nodes, durations, parallel_runs, matrix,
                   parallel_limit, config, completed, future, raised, ret,
                   waited, finished>>
    /\ UNCHANGED inputVars

\* deploy_config.submit(config) raises: nothing catches it in the flow
SubmitRaises ==
    /\ pc = "while"
    /\ ~LimitReached(active_futures, parallel_limit)
    /\ raised' = "SubmitError"
    /\ pc' = "crashed"
    /\ UNCHANGED <<result, nodes, durations, parallel_runs, matrix,
                   parallel_limit, active_futures, config, completed, future,
                   ret, status, submitted, waited, finished>>
    /\ UNCHANGED inputVars

\* for future in active_futures: future.wait()
DrainWait ==
    /\ pc = "drain"
    /\ future <= Len(active_futures)
    /\ WaitReturns(active_futures[future])
    /\ waited' = Append(waited, active_futures[future])
    /\ future' = future + 1
    /\ UNCHANGED <<result, nodes, durations, parallel_runs, matrix,
                   parallel_limit, active_futures, config, completed, pc,
                   raised, ret, status, submitted, finished>>
    /\ UNCHANGED inputVars

\* the final loop left out: the flow returns right after the for loop
FlowReturnNoDrain ==
    /\ pc = "drain"
    /\ pc' = "done"
    /\ ret' = None
    /\ UNCHANGED <<result, nodes, durations, parallel_runs, matrix,
                   parallel_limit, active_futures, config, completed, future,
                   raised, status, submitted, waited, finished>>
    /\ UNCHANGED inputVars

\* the final loop is over: the flow function ends, returning None
FlowReturn ==
    /\ pc = "drain"
    /\ future > Len(active_futures)
    /\ pc' = "done"
    /\ ret' = None
    /\ UNCHANGED <<result, nodes, durations, parallel_runs, matrix,
                   parallel_limit, active_futures, config, completed, future,
                   raised, status, submitted, waited, finished>>
    /\ UNCHANGED inputVars

\* ------------------------------------------------------------- deploy_config
\* release_name = f"waku-{nodecount}x-{duration}m"; the values file and the
\* helm install and uninstall of the job are named after it
ReleaseName(cfg) == <<"waku-", cfg.nodecount, "x-", cfg.duration, "m">>

\* the task run of configuration h returns its message
JobCompletes(h) ==
    /\ status[h] = "Running"
    /\ status' = [status EXCEPT ![h] = "Completed"]
    /\ finished' = Append(finished, h)
    /\ UNCHANGED <<result, nodes, durations, parallel_runs, matrix,
                   parallel_limit, active_futures, config, completed, future,
                   pc, raised, ret, submitted, waited>>
    /\ UNCHANGED inputVars

\* helm upgrade fails and the task re-raises CalledProcessError
JobFails(h) ==
    /\ status[h] = "Running"
    /\ status' = [status EXCEPT ![h] = "Failed"]
    /\ finished' = Append(finished, h)
    /\ UNCHANGED <<result, nodes, durations, parallel_runs, matrix,
                   parallel_limit, active_futures, config, completed, future,
                   pc, raised, ret, submitted, waited>>
    /\ UNCHANGED inputVars

Next ==
    \/ FlowVerified
    \/ FlowNotVerified
    \/ ForNext
    \/ WhilePop
    \/ WhilePopEmpty
    \/ WaitHead
    \/ Submit
    \/ SubmitRaises
    \/ DrainWait
    \/ FlowReturn
    \/ \E h \in DOMAIN status : JobCompletes(h)
    \/ \E h \in DOMAIN status : JobFails(h)

Spec == Init /\ [][Next]_vars

\* ------------------------------------------------ find_valid_issue, answers
\* most issues in one answer of the tracker
MaxIssues == 2
\* most events, all issues of one answer together
MaxEvents == 2

\* an authorized login in another case, and a login that is not authorized
ZorLin == <<"Z", "o", "r", "L", "i", "n">>
Mallory == <<"m", "a", "l", "l", "o", "r", "y">>

EventValues ==
    { [event |-> "labeled", label |-> "needs-scheduling", actor |-> ZorLin],
      [event |-> "labeled", label |-> "needs-scheduling", actor |-> Mallory],
      [event |-> "labeled", label |-> "bug", actor |-> ZorLin],
      [event |-> "unlabeled", label |-> "needs-scheduling", actor |-> ZorLin] }

LabelSets ==
    { {"needs-scheduling"}, {"needs-scheduling", "simulation-done"}, {"bug"} }

\* the lists of at most k issues with at most e events together
RECURSIVE IssueSeqs(_, _)
IssueSeqs(k, e) ==
    IF k = 0 THEN {<<>>}
    ELSE {<<>>} \cup
         UNION { { <<[labels |-> l, events |-> ev]>> \o rest :
                       l \in LabelSets, rest \in IssueSeqs(k - 1, e - Len(ev)) } :
                 ev \in SeqsUpTo(EventValues, e) }

\* issue['number']: the issues of an answer are numbered in tracker order
Numbered(q) ==
    [k \in 1..Len(q) |->
        [number |-> k, labels |-> q[k].labels, events |-> q[k].events]]

InitDiscovery ==
    /\ response \in
           {[status_code |-> 200, issues |-> Numbered(q)] :
                q \in IssueSeqs(MaxIssues, MaxEvents)}
           \cup {[status_code |-> 403, issues |-> <<>>]}
    /\ result = "NOT_CALLED"
    /\ valid_issue = NoIssue
    /\ nodes = <<10, 20>>
    /\ durations = <<5>>
    /\ parallel_runs \in {<<0>>, <<1>>}
    /\ body = NoText
    /\ data = <<>>
    /\ pubsub_topic = DefaultTopic
    /\ matrix = <<>>
    /\ parallel_limit = 1
    /\ active_futures = <<>>
    /\ config = 0
    /\ completed = NoFuture
    /\ future = 0
    /\ pc = "discover"
    /\ raised = "None"
    /\ ret = NotReturned
    /\ status = <<>>
    /\ submitted = <<>>
    /\ waited = <<>>
    /\ finished = <<>>

\* result, valid_issue = find_valid_issue(repo_name, github_token)
FindValidIssue ==
    /\ pc = "discover"
    /\ result' = find_valid_issue(response).result
    /\ valid_issue' = find_valid_issue(response).issue
    /\ pc' = "find"
    /\ UNCHANGED <<response, nodes, durations, parallel_runs, body, data,
                   pubsub_topic, matrix, parallel_limit, active_futures,
                   config, completed, future, raised, ret, status, submitted,
                   waited, finished>>

NextDiscovery == FindValidIssue \/ Next

SpecDiscovery == InitDiscovery /\ [][NextDiscovery]_vars

\* ------------------------------------------- parse_and_generate_matrix, text
\* most lines of an issue body
MaxLines == 3

\* the lines an issue body is made of: headers (one with an empty title) and
\* section texts
BodyLines ==
    { <<"#", "#", "#", " ", "N", "u", "m", "b", "e", "r", " ", "o", "f", " ", "n", "o", "d", "e", "s">>,
      <<"#", "#", "#", " ", "P", "a", "r", "a", "l", "l", "e", "l", "i", "s", "m", " ">>,
      <<"#", "#", "#", " ", "P", "u", "b", "S", "u", "b", " ", "T", "o", "p", "i", "c">>,
      <<"#", "#", "#", " ">>,
      <<"1", "0", ",", "x", ",", "2", "0">>,
      <<"x">>,
      <<"0">>,
      <<"_", "N", "o", " ", "r", "e", "s", "p", "o", "n", "s", "e", "_">>,
      <<>>,
      <<" ", "/", "w", "a", "k", "u", "/", "2", "/", "r", "s", "/", "3">>,
      <<"/", "w", "a", "k", "u", "/", "3">>,
      <<"sup2">> }

\* the body whose lines are given: they are joined by newlines
RECURSIVE Join(_)
Join(lines) ==
    IF lines = <<>> THEN <<>>
    ELSE IF Len(lines) = 1 THEN lines[1]
         ELSE lines[1] \o <<"\n">> \o Join(Tail(lines))

\* "body": null of an issue without description
NullBody == [null |-> TRUE, text |-> <<>>]

InitParse ==
    /\ body \in {NullBody} \cup
           {[null |-> FALSE, text |-> Join(ls)] : ls \in SeqsUpTo(BodyLines, MaxLines)}
    /\ result = "VERIFIED"
    /\ valid_issue = ApprovedIssue
    /\ response = [status_code |-> 200, issues |-> <<ApprovedIssue>>]
    /\ data = <<>>
    /\ pubsub_topic = <<>>
    /\ nodes = <<>>
    /\ durations = <<>>
    /\ parallel_runs = <<>>
    /\ matrix = <<>>
    /\ parallel_limit = 1
    /\ active_futures = <<>>
    /\ config = 0
    /\ completed = NoFuture
    /\ future = 0
    /\ pc = "parse"
    /\ raised = "None"
    /\ ret = NotReturned
    /\ status = <<>>
    /\ submitted = <<>>
    /\ waited = <<>>
    /\ finished = <<>>

\* the task called at line 404: the sections, the three lists, the topic and
\* the matrix, or the exception that leaves the task and the flow
parse_and_generate_matrix ==
    /\ pc = "parse"
    /\ IF body.null
       THEN \* body.split on None
            /\ raised' = "AttributeError"
            /\ pc' = "crashed"
            /\ UNCHANGED <<data, nodes, durations, parallel_runs, pubsub_topic,
                           matrix>>
       ELSE LET d == ScanBody(body.text)
                n == parse_list(get_valid_value(d, KeyNodes, DefaultNodes))
                du == parse_list(get_valid_value(d, KeyDuration, DefaultDuration))
                p == parse_list(get_valid_value(d, KeyParallelism,
                                                DefaultParallelism))
            IN  /\ data' = d
                /\ IF n.raised \/ du.raised \/ p.raised
                   THEN \* int() of a token that passed isdigit()
                        /\ raised' = "ValueError"
                        /\ pc' = "crashed"
                        /\ UNCHANGED <<nodes, durations, parallel_runs,
                                       pubsub_topic, matrix>>
                   ELSE /\ nodes' = n.value
                        /\ durations' = du.value
                        /\ parallel_runs' = p.value
                        /\ pubsub_topic' =
                               ResolveTopic(get_valid_value(d, KeyTopic, <<>>))
                        /\ matrix' = GenerateMatrix(n.value, du.value, p.value)
                        /\ pc' = "parsed"
                        /\ UNCHANGED raised
    /\ UNCHANGED <<result, valid_issue, response, body, parallel_limit,
                   active_futures, config, completed, future, ret, status,
                   submitted, waited, finished>>

NextParse == parse_and_generate_matrix

SpecParse == InitParse /\ [][NextParse]_vars

\* ------------------------------------------------------------------ helpers
Range(q) == {q[k] : k \in 1..Len(q)}
Running == {h \in DOMAIN status : status[h] = "Running"}
FlowEnded == pc \in {"done", "crashed"}

\* ------------------------------------------------------------------- claims

\* C1: in every state of the dispatch loop the number of jobs submitted and
\* not yet in a terminal state is at most parallel_limit, and active_futures
\* never holds more than parallel_limit handles.
C1_ActiveAtMostLimit ==
    /\ Cardinality(Running) <= parallel_limit
    /\ Len(active_futures) <= parallel_limit

\* C1 witness: the limit is 2, two jobs run, the flow is blocked on the head
\* and a configuration is still waiting to start.
C1_Witness ==
    /\ parallel_limit = 2
    /\ Cardinality(Running) = 2
    /\ pc = "wait"
    /\ status[config] = "Pending"

\* C2: a limit of 0 is treated as 1: once the flow has ended it has ended
\* normally and every configuration of the matrix has run to a terminal state.
C2_ZeroLimitTreatedAsOne ==
    (parallel_limit = 0 /\ FlowEnded) =>
        /\ pc = "done"
        /\ \A h \in DOMAIN status : status[h] \in Terminal

\* C3: every configuration of the matrix is started and gets a terminal
\* outcome; a configuration still unstarted when the flow has ended never is.
C3_EveryConfigurationStarted ==
    FlowEnded => \A h \in DOMAIN status : status[h] # "Pending"

\* C4: jobs are submitted strictly in matrix order, each configuration at most
\* once and none skipped (the submitted ones are always the first k of the
\* matrix, index 0..k-1), and when the flow returns every one was submitted.
C4_StartOrderIsMatrixOrder ==
    /\ submitted = [k \in 1..Len(submitted) |-> k]
    /\ \A k \in 1..Len(submitted) : matrix[submitted[k]].index = k - 1
    /\ \A h \in DOMAIN status : status[h] # "Pending" <=> h \in Range(submitted)
    /\ (pc = "done" /\ result = "VERIFIED") => Len(submitted) = Len(matrix)

\* C4 witness: three jobs were submitted and a later-started job ended before
\* an earlier-started one.
C4_Witness ==
    /\ Len(submitted) >= 3
    /\ \E a, b \in 1..Len(finished) : a < b /\ finished[a] > finished[b]

\* C5: with the queue full, the next configuration is not started until the
\* oldest tracked job is terminal: the job waited for is started earlier than
\* every job still tracked, the next configuration stays unstarted during the
\* wait, and a configuration numbered beyond the limit is started only with
\* the job that was head of the full queue (limit places before it) terminal.
C5_FifoBoundAdmission ==
    /\ pc = "wait" =>
           /\ status[config] = "Pending"
           /\ \A h \in Range(active_futures) : completed < h
    /\ \A c \in DOMAIN status :
           (status[c] # "Pending" /\ c > parallel_limit) =>
               status[c - parallel_limit] \in Terminal

\* C5 witness: the queue was full, the head is still running, a later-started
\* job has already ended, and the next configuration is not started.
C5_Witness ==
    /\ pc = "wait"
    /\ Len(active_futures) + 1 = parallel_limit
    /\ status[completed] = "Running"
    /\ \E h \in Range(active_futures) : status[h] \in Terminal
    /\ status[config] = "Pending"

\* C6: when the flow has returned, no submitted job is still running: every
\* job it started is in a terminal state.
C6_ReturnsAfterAllJobsEnd ==
    pc = "done" => \A h \in Range(submitted) : status[h] \in Terminal

\* C6 witness: the flow returned after its final loop waited for two jobs.
C6_Witness ==
    /\ pc = "done"
    /\ Len(active_futures) = 2
    /\ future = 3

\* C7: a failed job does not abort the dispatcher: the wait on a failed job
\* returns to the loop exactly as for a successful one (slot already released,
\* nothing raised), and a flow that returns has started and awaited every
\* configuration, failed ones and the ones after them included.
C7_FailedWaitContinues ==
    /\ (pc = "wait" /\ pc' # "wait" /\ status[completed] = "Failed") =>
           /\ pc' = "while"
           /\ raised' = "None"
           /\ active_futures' = active_futures
           /\ waited' = Append(waited, completed)
    /\ (pc = "drain" /\ future' # future /\ future <= Len(active_futures)) =>
           /\ pc' = "drain"
           /\ raised' = "None"
           /\ future' = future + 1

C7_FailureDoesNotAbort ==
    /\ []((pc = "done" /\ result = "VERIFIED") =>
              \A h \in DOMAIN status :
                  h \in Range(submitted) /\ h \in Range(waited))
    /\ [][C7_FailedWaitContinues]_vars

\* C7 witness: with limit 1 the first job failed, and the flow went on to
\* start and await the configurations after it and returned.
C7_Witness ==
    /\ pc = "done"
    /\ parallel_limit = 1
    /\ Len(matrix) >= 3
    /\ status[1] = "Failed"
    /\ status[3] = "Completed"

\* C8: when submit itself fails for a configuration, that configuration is
\* recorded as a terminal failure, no handle for it is in active_futures and
\* the dispatcher goes on.
C8_StartFailureRecorded ==
    raised = "SubmitError" =>
        /\ pc # "crashed"
        /\ status[config] = "Failed"
        /\ config \notin Range(active_futures)

\* C9: the flow returns a list with exactly one outcome per generated
\* configuration, ordered by configuration index.
C9_ReturnsOutcomesInIndexOrder ==
    (pc = "done" /\ matrix # <<>>) =>
        /\ ret.tag = "list"
        /\ Len(ret.items) = Len(matrix)
        /\ \A k \in 1..Len(matrix) : ret.items[k].index = k - 1

\* C10: the generated matrix has |N| x |D| entries, indexes 0..size-1 in
\* order, and the entry of index i has nodecount N[i div |D|] and duration
\* D[i mod |D|]; an empty N or D gives an empty matrix.
C10_MatrixIsNodeMajorProduct ==
    (pc # "find" /\ result = "VERIFIED") =>
        /\ Len(matrix) = Len(nodes) * Len(durations)
        /\ \A k \in 1..Len(matrix) :
               /\ matrix[k].index = k - 1
               /\ matrix[k].nodecount = nodes[((k - 1) \div Len(durations)) + 1]
               /\ matrix[k].duration = durations[((k - 1) % Len(durations)) + 1]
        /\ (nodes = <<>> \/ durations = <<>>) => matrix = <<>>

\* C10 witness: two different node counts and two different durations gave a
\* matrix of four configurations.
C10_Witness ==
    /\ pc # "find"
    /\ Len(nodes) = 2 /\ nodes[1] # nodes[2]
    /\ Len(durations) = 2 /\ durations[1] # durations[2]
    /\ Len(matrix) = 4

\* C15 (as claimed): while configurations are still waiting to start,
\* active_futures never contains a handle of a job that has already reached a
\* terminal state.
C15_NoEndedJobTracked ==
    (\E c \in DOMAIN status : status[c] = "Pending") =>
        \A h \in Range(active_futures) : status[h] \notin Terminal

\* C15 (amended): a slot is released when the dispatcher pops it as head of
\* the queue to wait for it, not when its job ends: while configurations are
\* still waiting to start, active_futures never contains the handle being
\* waited for nor a handle whose wait has returned.
C15_PoppedHandleReleased ==
    (\E c \in DOMAIN status : status[c] = "Pending") =>
        /\ Range(active_futures) \cap Range(waited) = {}
        /\ pc = "wait" => completed \notin Range(active_futures)

\* C15 witness: a configuration is still pending, one handle was popped and
\* awaited, and a job that has already ended is still tracked behind the head.
C15_Witness ==
    /\ \E c \in DOMAIN status : status[c] = "Pending"
    /\ Len(waited) >= 1
    /\ \E h \in Range(active_futures) : status[h] \in Terminal

\* C17: the dispatcher waits for a job only with the queue full (or in the
\* final loop): with a configuration taken and fewer than parallel_limit
\* handles tracked, its next step submits that configuration and waits for
\* nothing, and it goes to a wait only from a full queue.
C17_Step ==
    /\ (pc = "for" /\ config < Len(matrix) /\ pc' # pc) => pc' = "while"
    /\ (pc = "while" /\ Len(active_futures) < parallel_limit /\ pc' # pc) =>
           /\ pc' # "wait"
           /\ waited' = waited
           /\ \/ submitted' = Append(submitted, config)
              \/ raised' = "SubmitError"
    /\ (pc # "wait" /\ pc' = "wait") => Len(active_futures) >= parallel_limit
    /\ waited' # waited => pc \in {"wait", "drain"}

C17_BlocksOnlyWhenFull == [][C17_Step]_vars

\* C17 witness: with limit 2 the second configuration was submitted while the
\* first job was still running, and nothing had been waited for.
C17_Witness ==
    /\ parallel_limit = 2
    /\ submitted = <<1, 2>>
    /\ waited = <<>>
    /\ status[1] = "Running"

\* C18: no two jobs running at the same time use the same release name.
C18_DistinctReleaseNames ==
    \A h, g \in Running :
        h # g => ReleaseName(matrix[h]) # ReleaseName(matrix[g])

Min(a, b) == IF a <= b THEN a ELSE b
Max(a, b) == IF a >= b THEN a ELSE b

\* C20: with limit >= 1 the admission loop waits at most once per
\* configuration, the queue holds min(k, limit) handles right after the k-th
\* submission, its handles are in strictly increasing order, no handle is
\* awaited twice and a flow that returns has awaited every handle once.
C20_QueueShape ==
    parallel_limit >= 1 =>
        /\ pc = "for" =>
               Len(active_futures) = Min(Len(submitted), parallel_limit)
        /\ \A a, b \in 1..Len(active_futures) :
               a < b => active_futures[a] < active_futures[b]
        /\ pc \in {"for", "while", "wait"} =>
               /\ Len(waited) <= Max(0, config - parallel_limit)
               /\ Len(waited) >= Max(0, config - 1 - parallel_limit)
        /\ \A a, b \in 1..Len(waited) : a # b => waited[a] # waited[b]
        /\ pc = "done" => Range(waited) = Range(submitted)

\* C20 witness: with limit 2 and four configurations the flow returned, two
\* handles awaited as popped heads and two in the final loop.
C20_Witness ==
    /\ pc = "done"
    /\ parallel_limit = 2
    /\ Len(matrix) = 4
    /\ Len(waited) = 4

\* ------------------------------------------------ claims about the parsing
\* the stripped text of a section, empty when the section is absent
FieldText(key) == IF key \in DOMAIN data THEN Strip(data[key]) ELSE <<>>

\* the section has text, not the marker, and no token of it is an integer
NoIntegerToken(key) ==
    /\ FieldText(key) # <<>>
    /\ FieldText(key) # NoResponse
    /\ KeptTokens(FieldText(key)) = <<>>

\* C11: a list field whose text is not empty and has no token that is a
\* non-negative integer resolves to its default list: [50] for Number of
\* nodes, [5] for Duration, [1] for Parallelism.
C11_NoTokenFallsBackToDefault ==
    pc = "parsed" =>
        /\ NoIntegerToken(KeyNodes) => nodes = <<50>>
        /\ NoIntegerToken(KeyDuration) => durations = <<5>>
        /\ NoIntegerToken(KeyParallelism) => parallel_runs = <<1>>

\* C12: parsing and matrix generation never raise, whatever the body.
C12_ParsingNeverRaises == pc # "crashed" /\ raised = "None"

\* C14: the topic of the generated configurations starts with /waku/2/rs: it
\* is the trimmed text of the PubSub Topic section when that starts with the
\* prefix, and /waku/2/rs/2/0 when the section is absent, empty, the marker
\* or does not start with the prefix.
C14_TopicHasPrefix ==
    pc = "parsed" =>
        /\ StartsWith(pubsub_topic, TopicPrefix)
        /\ IF StartsWith(FieldText(KeyTopic), TopicPrefix)
           THEN pubsub_topic = FieldText(KeyTopic)
           ELSE pubsub_topic = DefaultTopic

\* C14 witness: a supplied topic with the prefix was taken, trimmed of the
\* blank before it and the newline after it.
C14_Witness ==
    /\ pc = "parsed"
    /\ KeyTopic \in DOMAIN data
    /\ pubsub_topic # DefaultTopic
    /\ pubsub_topic # data[KeyTopic]
    /\ matrix # <<>>

\* the lines of the body and what the claimed scanner does with them
Lines == Split(body.text, "\n")
IsHeader(k) == StartsWith(Lines[k], HeaderPrefix)
Title(k) == Strip(SubSeq(Lines[k], 5, Len(Lines[k])))
Headers == {k \in 1..Len(Lines) : IsHeader(k)}
\* the header that opened the section line k is in, 0 before the first one
Owner(k) ==
    IF \E h \in Headers : h < k
    THEN CHOOSE h \in Headers : h < k /\ \A g \in Headers : g < k => g <= h
    ELSE 0
LastHeader(t) ==
    CHOOSE h \in Headers : Title(h) = t /\ \A g \in Headers : Title(g) = t => g <= h
\* the lines of the section opened by header h, each with its newline
RECURSIVE SectionText(_, _)
SectionText(k, h) ==
    IF k > Len(Lines) THEN <<>>
    ELSE (IF ~IsHeader(k) /\ Owner(k) = h THEN Lines[k] \o <<"\n">> ELSE <<>>)
         \o SectionText(k + 1, h)

\* C16: the sections are keyed by the trimmed titles of the header lines, and
\* the text of a title is made of every non-header line of the section its
\* last header opened, each with a newline; lines before the first header
\* and lines of a section opened again later are in no text.
C16_ScannerKeepsSectionLines ==
    (pc \in {"parsed", "crashed"} /\ ~body.null) =>
        /\ DOMAIN data = {Title(h) : h \in Headers}
        /\ \A t \in DOMAIN data : data[t] = SectionText(1, LastHeader(t))

\* ---------------------------------------------- claims about the discovery
\* the issue is an approved request: labelled needs-scheduling, not
\* simulation-done, with a 'labeled needs-scheduling' event of an authorized
\* login, whatever the case of its letters
Approved(issue) ==
    /\ "needs-scheduling" \in issue.labels
    /\ "simulation-done" \notin issue.labels
    /\ \E k \in 1..Len(issue.events) :
           /\ issue.events[k].event = "labeled"
           /\ issue.events[k].label = "needs-scheduling"
           /\ \E u \in 1..Len(AUTHORIZED_USERS) :
                  Lower(AUTHORIZED_USERS[u]) = Lower(issue.events[k].actor)

NoApprovedRequest ==
    \/ response.status_code # 200
    \/ \A k \in 1..Len(response.issues) : ~Approved(response.issues[k])

\* C13: when discovery finds no approved request (answer not 200, or no
\* issue passing the label and authorization tests) the run generates no
\* matrix, starts no job and ends normally, returning no outcome.
C13_NoRequestNoJob ==
    (pc # "discover" /\ NoApprovedRequest) =>
        /\ result = "NOT_VERIFIED"
        /\ matrix = <<>> /\ status = <<>> /\ submitted = <<>>
        /\ raised = "None"
        /\ pc \in {"find", "done"}
        /\ pc = "done" => ret = None

\* C13 witness: the tracker answered 200 with an issue labelled
\* needs-scheduling by a login that is not authorized, and the run is over.
C13_Witness ==
    /\ pc = "done"
    /\ NoApprovedRequest
    /\ \E k \in 1..Len(response.issues) :
           /\ "needs-scheduling" \in response.issues[k].labels
           /\ response.issues[k].events # <<>>
           /\ \A j \in 1..Len(response.issues[k].events) :
                  response.issues[k].events[j].actor = Mallory

\* C19: jobs are started only for an approved issue, and for one issue per
\* run: the first approved issue in tracker order.
C19_JobsOnlyForFirstApproved ==
    (matrix # <<>> \/ submitted # <<>>) =>
        /\ response.status_code = 200
        /\ \E k \in 1..Len(response.issues) :
               /\ valid_issue = response.issues[k]
               /\ Approved(response.issues[k])
               /\ \A j \in 1..(k - 1) : ~Approved(response.issues[j])

\* C19 witness: a job was started for the second issue of the answer, whose
\* most recent labelling is by a login not authorized and whose earlier one
\* is by ZorLin, an authorized login in another case.
C19_Witness ==
    /\ submitted # <<>>
    /\ valid_issue.number = 2
    /\ Len(valid_issue.events) = 2
    /\ valid_issue.events[1].actor = ZorLin
    /\ valid_issue.events[2] =
           [event |-> "labeled", label |-> "needs-scheduling", actor |-> Mallory]

====
